---- MODULE Spec2Model ----
(***************************************************************************)
(* Quantum-Ride-Pooling: the assignment-and-routing pipeline.              *)
(*                                                                         *)
(*   SpecRoute  QUBO/parse_assignments.py  optimize_route and              *)
(*              process_vehicle_route (nearest-neighbour route builder)    *)
(*   SpecSolve  QUBO/solve_qubo.py  interpret_solution, validate_solution, *)
(*              main's save, and parse_assignments.load_assignments        *)
(*   SpecSim    Code/simulate_traffic.py  the tick loop with the greedy    *)
(*              and the precomputed ("quantum") strategy                   *)
(*                                                                         *)
(* The three programs are separate processes that only share files, so     *)
(* each has its own specification; the variables of the other two stay at  *)
(* their idle values.                                                      *)
(***************************************************************************)
EXTENDS Integers, Sequences, FiniteSets, TLC

VARIABLES
    \* ---- parse_assignments.py (route builder)
    rider_indices,     \* process_vehicle_route's argument: rows of df, in order
    route,             \* optimize_route: the list being built (point indices)
    current_pos,       \* optimize_route: current_pos
    remaining_points,  \* optimize_route: the set of point indices left
    rpc,               \* position: "optimize" | "reconstruct" | "done"
    artifact,          \* the dict process_vehicle_route returns
    \* ---- solve_qubo.py (solve stage) and the loader downstream of it
    riders,            \* args.riders
    vehicles,          \* args.vehicles
    sample,            \* sampleset.first.sample: variable name -> 0/1
    assignments,       \* interpret_solution's result
    is_valid,          \* validate_solution's result
    results_file,      \* what save_results wrote (NoFile before)
    loaded,            \* what load_assignments returned downstream
    spc,               \* position: "solved" | "interpreted" | "validated" | "saved" | "loaded"
    \* ---- simulate_traffic.py (simulation loop)
    algorithm,         \* args.algorithm
    qfile,             \* content of quantum_assignments_path (NoFile: missing)
    mpc,               \* position in __main__ / run_simulation
    step,              \* run_simulation's step counter
    cursor,            \* index of the next trip (greedy) or file entry (quantum)
    starts,            \* number of traci.start calls
    closes,            \* number of traci.close calls
    min_expected,      \* world: traci.simulation.getMinExpectedNumber()
    capacity,          \* world: vehicle -> person capacity
    position,          \* world: vehicle -> (x, y)
    target,            \* world: vehicle -> destination set by changeTarget
    served,            \* trips for which some assign_ride completed
    last,              \* the outcome of the latest assign attempt
    q_runs,            \* completed calls of quantum_assignment
    g_runs,            \* completed calls of greedy_assignment
    \* ---- qubo_model.py (model builder) and an exact minimiser of its model
    n_riders,          \* build_qubo_model's riders
    n_vehicles,        \* build_qubo_model's vehicles
    distance_matrix,   \* build_qubo_model: distance_matrix[i][j]
    time_matrix,       \* build_qubo_model: time_matrix[i][j]
    model,             \* the compiled objective: binary assignment -> value
    best_sample,       \* a binary assignment of least objective value
    bpc,               \* position: "inputs" | "built" | "minimised"
    \* ---- simulate_traffic.py: the node names assign_ride builds
    grid_size,         \* GRID_SIZE
    coords,            \* two grid coordinates
    nodes,             \* their node names
    npc                \* position: "grid" | "named"

routeVars == <<rider_indices, route, current_pos, remaining_points, rpc, artifact>>
solveVars == <<riders, vehicles, sample, assignments, is_valid, results_file, loaded, spc>>
simVars == <<algorithm, qfile, mpc, step, cursor, starts, closes, min_expected,
             capacity, position, target, served, last, q_runs, g_runs>>
quboVars == <<n_riders, n_vehicles, distance_matrix, time_matrix, model,
             best_sample, bpc>>
nodeVars == <<grid_size, coords, nodes, npc>>
vars == <<routeVars, solveVars, simVars, quboVars, nodeVars>>

\* An absent file or value; present ones are records with exists |-> TRUE.
NoFile == [exists |-> FALSE]

Abs(n) == IF n < 0 THEN -n ELSE n

(***************************************************************************)
(* Bounds of the model.                                                    *)
(***************************************************************************)
MaxRiders == 3       \* riders handed to one process_vehicle_route call
MaxVars == 11        \* binary variables riders * vehicles of one sample
MaxTicks == 2        \* ticks of the simulation loop that are explored

(***************************************************************************)
(* Program constants.                                                      *)
(***************************************************************************)
AVG_SPEED == 10
MAX_CAPACITY == 4
VEHICLE_CAPACITY == 4

(***************************************************************************)
(* parse_assignments.py                                                    *)
(***************************************************************************)

\* The DataFrame handed to process_vehicle_route: rows 0 and 1 are riders A
\* and B of the worked example, the others cover a dropoff nearer to the
\* start than its pickup, coincident points, equidistant points and a dropoff
\* at the start.  Row r is df.iloc[r] (TLA+ sequences start at 1).
df ==
    << [pickup_x |-> 0, pickup_y |-> 2, dropoff_x |-> 0, dropoff_y |-> 5],
       [pickup_x |-> 1, pickup_y |-> 0, dropoff_x |-> 1, dropoff_y |-> 1],
       [pickup_x |-> 2, pickup_y |-> 2, dropoff_x |-> 0, dropoff_y |-> 1],
       [pickup_x |-> 1, pickup_y |-> 1, dropoff_x |-> 1, dropoff_y |-> 1],
       [pickup_x |-> 0, pickup_y |-> 1, dropoff_x |-> 1, dropoff_y |-> 0],
       [pickup_x |-> 3, pickup_y |-> 0, dropoff_x |-> 0, dropoff_y |-> 0] >>

Rows == 0 .. (Len(df) - 1)

Iloc(r) == df[r + 1]

\* calculate_distance with the second term dropped
calculate_distance_XOnly(p1, p2) == Abs(p1[1] - p2[1])

calculate_distance(p1, p2) == Abs(p1[1] - p2[1]) + Abs(p1[2] - p2[2])

\* pickups / dropoffs of process_vehicle_route, as 0-based lists
pickups(ri) == [k \in 0 .. (Len(ri) - 1) |->
                   <<Iloc(ri[k + 1]).pickup_x, Iloc(ri[k + 1]).pickup_y>>]

dropoffs(ri) == [k \in 0 .. (Len(ri) - 1) |->
                    <<Iloc(ri[k + 1]).dropoff_x, Iloc(ri[k + 1]).dropoff_y>>]

\* points of optimize_route: (coordinate, type, local rider index), pickups
\* first then dropoffs
points(ri) == [i \in 0 .. (2 * Len(ri) - 1) |->
                  IF i < Len(ri)
                  THEN [coord |-> pickups(ri)[i], typ |-> 0, idx |-> i]
                  ELSE [coord |-> dropoffs(ri)[i - Len(ri)], typ |-> 1,
                        idx |-> i - Len(ri)]]

\* min(remaining_points, key=distance): the first minimal element in the
\* set's iteration order, which for a set of small non-negative ints in
\* CPython is ascending order.
Nearest(ri, rem, pos) ==
    CHOOSE i \in rem : \A j \in rem :
        \/ calculate_distance(pos, points(ri)[i].coord)
             < calculate_distance(pos, points(ri)[j].coord)
        \/ /\ calculate_distance(pos, points(ri)[i].coord)
                = calculate_distance(pos, points(ri)[j].coord)
           /\ i <= j

\* next(i for i, (_, typ, idx) in enumerate(points) if typ == 1 and idx == rider_idx)
DropoffIdx(ri, rider_idx) ==
    CHOOSE i \in DOMAIN points(ri) :
        /\ points(ri)[i].typ = 1 /\ points(ri)[i].idx = rider_idx
        /\ \A j \in DOMAIN points(ri) :
              (points(ri)[j].typ = 1 /\ points(ri)[j].idx = rider_idx) => i <= j

\* the update of remaining_points without the test `dropoff_idx in
\* remaining_points`: the rider's dropoff is added whenever a pickup is chosen
RemainingAfterAlwaysAdd(ri, rem, nearest) ==
    LET removed == rem \ {nearest}
        rider_idx == points(ri)[nearest].idx
    IN  IF points(ri)[nearest].typ = 0
        THEN {i \in removed :
                 ~(points(ri)[i].typ = 1 /\ points(ri)[i].idx = rider_idx)}
             \cup {DropoffIdx(ri, rider_idx)}
        ELSE removed

\* remaining_points after one iteration of the while loop that chose `nearest`
RemainingAfter(ri, rem, nearest) ==
    LET removed == rem \ {nearest}
        rider_idx == points(ri)[nearest].idx
        dropoff_idx == DropoffIdx(ri, rider_idx)
    IN  IF points(ri)[nearest].typ = 0 /\ dropoff_idx \in removed
        THEN {i \in removed :
                 ~(points(ri)[i].typ = 1 /\ points(ri)[i].idx = rider_idx)}
             \cup {dropoff_idx}
        ELSE removed

\* One iteration of optimize_route's while loop.
OptimizeStep ==
    /\ rpc = "optimize"
    /\ remaining_points # {}
    /\ LET nearest == Nearest(rider_indices, remaining_points, current_pos)
       IN  /\ route' = Append(route, nearest)
           /\ current_pos' = points(rider_indices)[nearest].coord
           /\ remaining_points' =
                  RemainingAfter(rider_indices, remaining_points, nearest)
    /\ UNCHANGED <<rider_indices, rpc, artifact>>
    /\ UNCHANGED <<solveVars, simVars, quboVars, nodeVars>>

\* optimize_route returns (the loop ended, or `if not pickups: return []`).
OptimizeReturn ==
    /\ rpc = "optimize"
    /\ remaining_points = {}
    /\ rpc' = "reconstruct"
    /\ UNCHANGED <<rider_indices, route, current_pos, remaining_points, artifact>>
    /\ UNCHANGED <<solveVars, simVars, quboVars, nodeVars>>

\* The stop process_vehicle_route appends for route index idx, coming from prev.
Stop(ri, idx, prev) ==
    LET point_type == IF idx < Len(ri) THEN "pickup" ELSE "dropoff"
        rider_idx == IF point_type = "pickup" THEN idx ELSE idx - Len(ri)
        point == IF point_type = "pickup" THEN pickups(ri)[rider_idx]
                 ELSE dropoffs(ri)[rider_idx]
    IN  [type |-> point_type, rider_id |-> rider_idx, x |-> point[1],
         y |-> point[2],
         distance_from_previous |-> calculate_distance(prev, point)]

\* the reconstruction loop without `current_pos = point`: every distance is
\* measured from the start
RECURSIVE ReconstructNoMove(_, _, _)
ReconstructNoMove(ri, rt, n) ==
    IF n = 0 THEN <<<<>>, 0, <<0, 0>>>>
    ELSE LET before == ReconstructNoMove(ri, rt, n - 1)
             stop == Stop(ri, rt[n], before[3])
         IN  <<Append(before[1], stop),
               before[2] + stop.distance_from_previous,
               before[3]>>

\* The reconstruction loop of process_vehicle_route over route_indices[1..n]:
\* <<route_points, total_distance, current_pos>>.
RECURSIVE Reconstruct(_, _, _)
Reconstruct(ri, rt, n) ==
    IF n = 0 THEN <<<<>>, 0, <<0, 0>>>>
    ELSE LET before == Reconstruct(ri, rt, n - 1)
             stop == Stop(ri, rt[n], before[3])
         IN  <<Append(before[1], stop),
               before[2] + stop.distance_from_previous,
               <<stop.x, stop.y>>>>

\* rider_data of process_vehicle_route
rider_data(ri) == [k \in 1 .. Len(ri) |->
    [rider_id |-> ri[k],
     pickup |-> <<Iloc(ri[k]).pickup_x, Iloc(ri[k]).pickup_y>>,
     dropoff |-> <<Iloc(ri[k]).dropoff_x, Iloc(ri[k]).dropoff_y>>]]

\* process_vehicle_route after optimize_route returned: the artifact.
ProcessVehicleRoute ==
    /\ rpc = "reconstruct"
    /\ LET rec == Reconstruct(rider_indices, route, Len(route))
       IN  artifact' =
             IF rider_indices = <<>>
             THEN [exists |-> TRUE, route |-> <<>>, total_distance |-> 0,
                   estimated_time |-> 0, riders |-> <<>>]
             ELSE [exists |-> TRUE, route |-> rec[1], total_distance |-> rec[2],
                   estimated_time |-> (rec[2] * 1000) \div AVG_SPEED,
                   riders |-> rider_data(rider_indices)]
    /\ rpc' = "done"
    /\ UNCHANGED <<rider_indices, route, current_pos, remaining_points>>
    /\ UNCHANGED <<solveVars, simVars, quboVars, nodeVars>>

RECURSIVE SeqsUpTo(_, _)
SeqsUpTo(S, n) ==
    IF n = 0 THEN {<<>>}
    ELSE LET shorter == SeqsUpTo(S, n - 1)
         IN  shorter \cup {Append(s, x) : s \in shorter, x \in S}

RouteIdle ==
    /\ rider_indices = <<>>
    /\ route = <<>>
    /\ current_pos = <<0, 0>>
    /\ remaining_points = {}
    /\ rpc = "idle"
    /\ artifact = NoFile

SolveIdle ==
    /\ riders = 0
    /\ vehicles = 0
    /\ sample = <<>>
    /\ assignments = <<>>
    /\ is_valid = FALSE
    /\ results_file = NoFile
    /\ loaded = NoFile
    /\ spc = "idle"

SimIdle ==
    /\ algorithm = "greedy"
    /\ qfile = NoFile
    /\ mpc = "idle"
    /\ step = 0
    /\ cursor = 0
    /\ starts = 0
    /\ closes = 0
    /\ min_expected = 0
    /\ capacity = <<>>
    /\ position = <<>>
    /\ target = <<>>
    /\ served = {}
    /\ last = NoFile
    /\ q_runs = 0
    /\ g_runs = 0

QuboIdle ==
    /\ n_riders = 0
    /\ n_vehicles = 0
    /\ distance_matrix = <<>>
    /\ time_matrix = <<>>
    /\ model = <<>>
    /\ best_sample = <<>>
    /\ bpc = "idle"

NodeIdle ==
    /\ grid_size = 0
    /\ coords = <<>>
    /\ nodes = <<>>
    /\ npc = "idle"

\* process_vehicle_route is entered with a rider list; optimize_route starts
\* with every point, pickups and dropoffs alike, in remaining_points.
InitRoute ==
    /\ rider_indices \in SeqsUpTo(Rows, MaxRiders)
    /\ route = <<>>
    /\ current_pos = <<0, 0>>
    /\ remaining_points = 0 .. (2 * Len(rider_indices) - 1)
    /\ rpc = "optimize"
    /\ artifact = NoFile
    /\ SolveIdle
    /\ SimIdle
    /\ QuboIdle
    /\ NodeIdle

NextRoute == OptimizeStep \/ OptimizeReturn \/ ProcessVehicleRoute

SpecRoute == InitRoute /\ [][NextRoute]_vars


(***************************************************************************)
(* solve_qubo.py                                                           *)
(***************************************************************************)

DigitChars == <<"0", "1", "2", "3", "4", "5", "6", "7", "8", "9">>

\* str(n) for n >= 0, as a sequence of characters
RECURSIVE Digits(_)
Digits(n) ==
    IF n < 10 THEN <<DigitChars[n + 1]>>
    ELSE Append(Digits(n \div 10), DigitChars[(n % 10) + 1])

\* The variable name pyqubo's Array.create('x', shape=(riders, vehicles))
\* gives x[i][j]; these are the keys of the sample.
VarName(i, j) == <<"x", "[">> \o Digits(i) \o <<"]", "[">> \o Digits(j) \o <<"]">>

IsDigit(c) == \E d \in 1 .. 10 : DigitChars[d] = c

DigitValue(c) == (CHOOSE d \in 1 .. 10 : DigitChars[d] = c) - 1

\* int() that reads the last digit only
IntOfLastDigit(ds) == DigitValue(ds[Len(ds)])

\* int() of a string of digits
RECURSIVE IntOf(_)
IntOf(ds) ==
    IF Len(ds) = 0 THEN 0
    ELSE 10 * IntOf(SubSeq(ds, 1, Len(ds) - 1)) + DigitValue(ds[Len(ds)])

\* End of the longest run of digits of s starting at position from (from - 1
\* when s has no digit there): what a greedy \d+ consumes.
RECURSIVE DigitRunEnd(_, _)
DigitRunEnd(s, from) ==
    IF from <= Len(s) /\ IsDigit(s[from]) THEN DigitRunEnd(s, from + 1)
    ELSE from - 1

NoMatch == <<>>

\* re.compile(r"x\[(\d+)\]\[(\d+)\]").match(key_str): <<int(group 1),
\* int(group 2)>>, or NoMatch.  match anchors at the start only.
PatternMatch(s) ==
    IF ~(Len(s) >= 2 /\ s[1] = "x" /\ s[2] = "[") THEN NoMatch
    ELSE LET e1 == DigitRunEnd(s, 3)
         IN  IF ~(e1 >= 3 /\ Len(s) >= e1 + 2 /\ s[e1 + 1] = "]" /\ s[e1 + 2] = "[")
             THEN NoMatch
             ELSE LET e2 == DigitRunEnd(s, e1 + 3)
                  IN  IF ~(e2 >= e1 + 3 /\ Len(s) >= e2 + 1 /\ s[e2 + 1] = "]")
                      THEN NoMatch
                      ELSE <<IntOf(SubSeq(s, 3, e1)), IntOf(SubSeq(s, e1 + 3, e2))>>

\* The n-th item of sample.items(), n = 1 .. R * V: the variables in the
\* order Array.create made them, row by row.
ItemKey(V, n) == VarName((n - 1) \div V, (n - 1) % V)

\* interpret_solution after the first n items of the sample
RECURSIVE InterpretUpTo(_, _, _)
InterpretUpTo(smp, V, n) ==
    IF n = 0 THEN [j \in 0 .. (V - 1) |-> <<>>]
    ELSE LET before == InterpretUpTo(smp, V, n - 1)
             key_str == ItemKey(V, n)
             m == PatternMatch(key_str)
         IN  IF smp[key_str] = 1 /\ m # NoMatch
             THEN [before EXCEPT ![m[2]] = Append(@, m[1])]
             ELSE before

interpret_solution(smp, R, V) == InterpretUpTo(smp, V, R * V)

\* validate_solution: the riders are collected into a set, whose size is
\* compared with the rider count
validate_solution(asg, R) ==
    LET assigned_riders == UNION {{asg[j][k] : k \in 1 .. Len(asg[j])} : j \in DOMAIN asg}
    IN  Cardinality(assigned_riders) = R

\* main: assignments = interpret_solution(best_sample, args.riders, args.vehicles)
InterpretSolution ==
    /\ spc = "solved"
    /\ assignments' = interpret_solution(sample, riders, vehicles)
    /\ spc' = "interpreted"
    /\ UNCHANGED <<riders, vehicles, sample, is_valid, results_file, loaded>>
    /\ UNCHANGED <<routeVars, simVars, quboVars, nodeVars>>

\* main: is_valid = validate_solution(assignments, args.riders)
ValidateSolution ==
    /\ spc = "interpreted"
    /\ is_valid' = validate_solution(assignments, riders)
    /\ spc' = "validated"
    /\ UNCHANGED <<riders, vehicles, sample, assignments, results_file, loaded>>
    /\ UNCHANGED <<routeVars, simVars, quboVars, nodeVars>>

\* json.dump of the assignments dict: its int keys become decimal strings
JsonAssignments(asg) ==
    [k \in {Digits(j) : j \in DOMAIN asg} |-> asg[IntOf(k)]]

\* main: results = {...}; save_results(results, args.output), whatever
\* is_valid is
SaveResults ==
    /\ spc = "validated"
    /\ results_file' = [exists |-> TRUE, is_valid |-> is_valid,
                        assignments |-> JsonAssignments(assignments)]
    /\ spc' = "saved"
    /\ UNCHANGED <<riders, vehicles, sample, assignments, is_valid, loaded>>
    /\ UNCHANGED <<routeVars, simVars, quboVars, nodeVars>>

\* parse_assignments.load_assignments on the file the solve stage wrote:
\* results['assignments'], the other keys are not read
LoadAssignments ==
    /\ spc = "saved"
    /\ results_file.exists
    /\ loaded' = [exists |-> TRUE, assignments |-> results_file.assignments]
    /\ spc' = "loaded"
    /\ UNCHANGED <<riders, vehicles, sample, assignments, is_valid, results_file>>
    /\ UNCHANGED <<routeVars, simVars, quboVars, nodeVars>>

SampleKeys(R, V) == {VarName(i, j) : i \in 0 .. (R - 1), j \in 0 .. (V - 1)}

\* The solver has returned its best sample: any binary vector over the
\* variables of the model (the soft constraints do not exclude any).
InitSolve ==
    /\ riders \in 1 .. MaxVars
    /\ vehicles \in 1 .. MaxVars
    /\ riders * vehicles <= MaxVars
    /\ sample \in [SampleKeys(riders, vehicles) -> {0, 1}]
    /\ assignments = <<>>
    /\ is_valid = FALSE
    /\ results_file = NoFile
    /\ loaded = NoFile
    /\ spc = "solved"
    /\ RouteIdle
    /\ SimIdle
    /\ QuboIdle
    /\ NodeIdle

NextSolve == InterpretSolution \/ ValidateSolution \/ SaveResults \/ LoadAssignments

SpecSolve == InitSolve /\ [][NextSolve]_vars

(***************************************************************************)
(* simulate_traffic.py                                                     *)
(***************************************************************************)

\* traci.vehicle.getIDList(): the vehicles add_vehicles created, in the order
\* the world lists them.  (NUM_VEHICLES is 10 in the source; two vehicles
\* keep the state space small.)
VehicleIds == <<"veh_0", "veh_1">>

Fleet == {VehicleIds[n] : n \in 1 .. Len(VehicleIds)}

\* The rows of the trips DataFrame (trips.iloc[t], t from 0).
trips ==
    << [pickup_x |-> 0, pickup_y |-> 0, dropoff_x |-> 1, dropoff_y |-> 1],
       [pickup_x |-> 1, pickup_y |-> 1, dropoff_x |-> 0, dropoff_y |-> 1],
       [pickup_x |-> 1, pickup_y |-> 0, dropoff_x |-> 0, dropoff_y |-> 0],
       [pickup_x |-> 0, pickup_y |-> 1, dropoff_x |-> 1, dropoff_y |-> 0],
       [pickup_x |-> 1, pickup_y |-> 1, dropoff_x |-> 0, dropoff_y |-> 0] >>

TripIds == 0 .. (Len(trips) - 1)

\* Where traci.vehicle.getPosition can report a vehicle to be.
WorldPositions == {<<0, 0>>, <<1, 1>>}

\* f"node{x}{y}"
NodeName(x, y) == <<"node">> \o Digits(x) \o Digits(y)

DepotNode == <<"node", "0">>

\* initialize_sumo: traci.start
InitializeSumo ==
    /\ mpc = "start"
    /\ starts' = starts + 1
    /\ mpc' = "connected"
    /\ UNCHANGED <<algorithm, qfile, step, cursor, closes, min_expected, capacity,
                   position, target, served, last, q_runs, g_runs>>
    /\ UNCHANGED <<routeVars, solveVars, quboVars, nodeVars>>

\* add_vehicles: every vehicle starts at the depot with VEHICLE_CAPACITY seats
AddVehicles ==
    /\ mpc = "connected"
    /\ capacity' = [v \in Fleet |-> VEHICLE_CAPACITY]
    /\ position' = [v \in Fleet |-> <<0, 0>>]
    /\ target' = [v \in Fleet |-> DepotNode]
    /\ min_expected' = Len(VehicleIds)
    /\ mpc' = "loop"
    /\ UNCHANGED <<algorithm, qfile, step, cursor, starts, closes, served, last,
                   q_runs, g_runs>>
    /\ UNCHANGED <<routeVars, solveVars, quboVars, nodeVars>>

\* the while condition with `>=` for `>`
LoopConditionAtLeast == min_expected >= 0

\* run_simulation: traci.simulation.getMinExpectedNumber() > 0
LoopCondition == min_expected > 0

\* run_simulation: the while condition holds and traci.simulationStep() runs.
\* The world moves the vehicles; its count of expected vehicles stays or
\* drops to zero (the loop only tests it against zero).
SimulationStep ==
    /\ mpc = "loop"
    /\ LoopCondition
    /\ step < MaxTicks
    /\ position' \in [Fleet -> WorldPositions]
    /\ min_expected' \in {0, min_expected}
    /\ mpc' = "stepped"
    /\ UNCHANGED <<algorithm, qfile, step, cursor, starts, closes, capacity, target,
                   served, last, q_runs, g_runs>>
    /\ UNCHANGED <<routeVars, solveVars, quboVars, nodeVars>>

\* run_simulation: the while condition fails
LoopExit ==
    /\ mpc = "loop"
    /\ ~LoopCondition
    /\ mpc' = "finished"
    /\ UNCHANGED <<algorithm, qfile, step, cursor, starts, closes, min_expected,
                   capacity, position, target, served, last, q_runs, g_runs>>
    /\ UNCHANGED <<routeVars, solveVars, quboVars, nodeVars>>

\* __main__: traci.close() after run_simulation returned
Close ==
    /\ mpc = "finished"
    /\ closes' = closes + 1
    /\ mpc' = "closed"
    /\ UNCHANGED <<algorithm, qfile, step, cursor, starts, min_expected, capacity,
                   position, target, served, last, q_runs, g_runs>>
    /\ UNCHANGED <<routeVars, solveVars, quboVars, nodeVars>>

\* What the world can answer to the two changeTarget calls of assign_ride:
\* both accepted, the first raises TraCIException, or the second does.
Outcomes == {"assigned", "pickup_rejected", "dropoff_rejected"}

\* assign_ride(veh_id, trip) under the given answer of the world: the new
\* <<capacity, target>>
assign_ride(veh_id, t, outcome) ==
    LET trip == trips[t + 1]
        pickup_node == NodeName(trip.pickup_x, trip.pickup_y)
        dropoff_node == NodeName(trip.dropoff_x, trip.dropoff_y)
    IN  CASE outcome = "pickup_rejected" -> <<capacity, target>>
          [] outcome = "dropoff_rejected" ->
                <<capacity, [target EXCEPT ![veh_id] = pickup_node]>>
          [] outcome = "assigned" ->
                <<[capacity EXCEPT ![veh_id] = capacity[veh_id] - 1],
                  [target EXCEPT ![veh_id] = dropoff_node]>>

\* assign_ride's try block with only the first changeTarget inside it
ExceptCatchesFirstCallOnly(outcome) == outcome = "pickup_rejected"

\* assign_ride: `except traci.TraCIException` around both changeTarget calls
\* catches the exception either of them raises
ExceptCatches(outcome) == outcome \in {"pickup_rejected", "dropoff_rejected"}

\* Where control is after assign_ride under the given answer of the world:
\* an exception that is not caught ends the process, otherwise the caller's
\* loop goes on
AfterAssign(outcome, here) ==
    IF outcome # "assigned" /\ ~ExceptCatches(outcome) THEN "exited" ELSE here

\* min_dist = float('inf') is <<>>, a finite distance d is <<d>>
Inf == <<>>

\* the comparison of the scan with `<=` for `<`: the last nearest vehicle
\* wins ties
AtMost(dist, min_dist) == min_dist = Inf \/ dist <= min_dist[1]

\* dist < min_dist
Closer(dist, min_dist) == min_dist = Inf \/ dist < min_dist[1]

\* The inner loop of greedy_assignment over the first n vehicles of the id
\* list: <<best_veh, min_dist>>
RECURSIVE GreedyScan(_, _)
GreedyScan(t, n) ==
    IF n = 0 THEN <<"None", Inf>>
    ELSE LET before == GreedyScan(t, n - 1)
             veh_id == VehicleIds[n]
             veh_pos == position[veh_id]
             dx == Abs(veh_pos[1] - trips[t + 1].pickup_x)
             dy == Abs(veh_pos[2] - trips[t + 1].pickup_y)
             dist == dx + dy
         IN  IF capacity[veh_id] > 0 /\ Closer(dist, before[2])
             THEN <<veh_id, <<dist>>>>
             ELSE before

\* best_veh after the inner loop
best_veh(t) == GreedyScan(t, Len(VehicleIds))[1]

\* `if best_veh:` (None and the empty string are false)
Truthy(v) == v # "None" /\ v # ""

\* run_simulation: the branch taken after the world step, greedy algorithm
GreedyStart ==
    /\ mpc = "stepped"
    /\ algorithm = "greedy"
    /\ cursor' = 0
    /\ mpc' = "greedy"
    /\ UNCHANGED <<algorithm, qfile, step, starts, closes, min_expected, capacity,
                   position, target, served, last, q_runs, g_runs>>
    /\ UNCHANGED <<routeVars, solveVars, quboVars, nodeVars>>

\* greedy_assignment: one iteration of `for trip in trips.itertuples()`.
\* Every trip is visited in every tick.
GreedyTrip ==
    /\ mpc = "greedy"
    /\ cursor < Len(trips)
    /\ LET best == best_veh(cursor)
       IN  IF Truthy(best)
           THEN \E outcome \in Outcomes :
                  /\ capacity' = assign_ride(best, cursor, outcome)[1]
                  /\ target' = assign_ride(best, cursor, outcome)[2]
                  /\ served' = IF outcome = "assigned" THEN served \cup {cursor}
                               ELSE served
                  /\ last' = [exists |-> TRUE, trip |-> cursor, veh |-> best,
                              outcome |-> outcome]
                  /\ mpc' = AfterAssign(outcome, mpc)
           ELSE /\ UNCHANGED <<capacity, target, served, mpc>>
                /\ last' = [exists |-> TRUE, trip |-> cursor, veh |-> best,
                            outcome |-> "no_vehicle"]
    /\ cursor' = cursor + 1
    /\ UNCHANGED <<algorithm, qfile, step, starts, closes, min_expected,
                   position, q_runs, g_runs>>
    /\ UNCHANGED <<routeVars, solveVars, quboVars, nodeVars>>

\* greedy_assignment returns; step += 1
GreedyEnd ==
    /\ mpc = "greedy"
    /\ cursor = Len(trips)
    /\ g_runs' = g_runs + 1
    /\ step' = step + 1
    /\ mpc' = "loop"
    /\ UNCHANGED <<algorithm, qfile, cursor, starts, closes, min_expected, capacity,
                   position, target, served, last, q_runs>>
    /\ UNCHANGED <<routeVars, solveVars, quboVars, nodeVars>>

\* The first branch with the step test dropped
QuantumBranchEveryTick == algorithm = "quantum"

\* The condition of run_simulation's first branch
QuantumBranch == step = 0 /\ algorithm = "quantum"

\* quantum_assignment: the file opens and is parsed
QuantumStart ==
    /\ mpc = "stepped"
    /\ QuantumBranch
    /\ qfile.exists
    /\ cursor' = 0
    /\ mpc' = "quantum"
    /\ UNCHANGED <<algorithm, qfile, step, starts, closes, min_expected, capacity,
                   position, target, served, last, q_runs, g_runs>>
    /\ UNCHANGED <<routeVars, solveVars, quboVars, nodeVars>>

\* quantum_assignment: FileNotFoundError, exit(1).  Nothing runs after it.
QuantumFileMissing ==
    /\ mpc = "stepped"
    /\ QuantumBranch
    /\ ~qfile.exists
    /\ mpc' = "exited"
    /\ UNCHANGED <<algorithm, qfile, step, cursor, starts, closes, min_expected,
                   capacity, position, target, served, last, q_runs, g_runs>>
    /\ UNCHANGED <<routeVars, solveVars, quboVars, nodeVars>>

\* quantum_assignment: one assign_ride(veh_id, trips.iloc[rider_id]) of the
\* nested loops over assignments.items()
QuantumAssign ==
    /\ mpc = "quantum"
    /\ cursor < Len(qfile.entries)
    /\ LET veh_id == qfile.entries[cursor + 1][1]
           rider_id == qfile.entries[cursor + 1][2]
       IN  \E outcome \in Outcomes :
              /\ capacity' = assign_ride(veh_id, rider_id, outcome)[1]
              /\ target' = assign_ride(veh_id, rider_id, outcome)[2]
              /\ served' = IF outcome = "assigned" THEN served \cup {rider_id}
                           ELSE served
              /\ last' = [exists |-> TRUE, trip |-> rider_id, veh |-> veh_id,
                          outcome |-> outcome]
              /\ mpc' = AfterAssign(outcome, mpc)
    /\ cursor' = cursor + 1
    /\ UNCHANGED <<algorithm, qfile, step, starts, closes, min_expected,
                   position, q_runs, g_runs>>
    /\ UNCHANGED <<routeVars, solveVars, quboVars, nodeVars>>

\* quantum_assignment returns; step += 1
QuantumEnd ==
    /\ mpc = "quantum"
    /\ cursor = Len(qfile.entries)
    /\ q_runs' = q_runs + 1
    /\ step' = step + 1
    /\ mpc' = "loop"
    /\ UNCHANGED <<algorithm, qfile, cursor, starts, closes, min_expected, capacity,
                   position, target, served, last, g_runs>>
    /\ UNCHANGED <<routeVars, solveVars, quboVars, nodeVars>>

\* run_simulation: neither branch is taken (quantum, after the first tick);
\* step += 1
NoAssignment ==
    /\ mpc = "stepped"
    /\ ~QuantumBranch
    /\ algorithm # "greedy"
    /\ step' = step + 1
    /\ mpc' = "loop"
    /\ UNCHANGED <<algorithm, qfile, cursor, starts, closes, min_expected, capacity,
                   position, target, served, last, q_runs, g_runs>>
    /\ UNCHANGED <<routeVars, solveVars, quboVars, nodeVars>>

\* The rider ids 0 .. Len(trips)-1 that g sends to vehicle v, ascending
RECURSIVE RidersOf(_, _, _)
RidersOf(g, v, n) ==
    IF n = 0 THEN <<>>
    ELSE IF g[n - 1] = v THEN Append(RidersOf(g, v, n - 1), <<v, n - 1>>)
         ELSE RidersOf(g, v, n - 1)

\* The (vehicle, rider) pairs in the order the nested loops of
\* quantum_assignment meet them, for the first n vehicles of the file
RECURSIVE Entries(_, _)
Entries(g, n) ==
    IF n = 0 THEN <<>>
    ELSE Entries(g, n - 1) \o RidersOf(g, VehicleIds[n], Len(trips))

\* The assignment files: no file at all, or every trip under exactly one
\* vehicle, the first k trips under the first vehicle and the others under
\* the second (no stage checks the number of riders per vehicle).
QuantumFiles ==
    {NoFile} \cup
    {[exists |-> TRUE,
      entries |-> Entries([t \in TripIds |-> IF t < k THEN VehicleIds[1]
                                             ELSE VehicleIds[2]],
                          Len(VehicleIds))] : k \in 0 .. Len(trips)}

InitSim ==
    /\ algorithm \in {"greedy", "quantum"}
    /\ qfile \in QuantumFiles
    /\ algorithm = "greedy" => qfile = NoFile
    /\ mpc = "start"
    /\ step = 0
    /\ cursor = 0
    /\ starts = 0
    /\ closes = 0
    /\ min_expected = 0
    /\ capacity = <<>>
    /\ position = <<>>
    /\ target = <<>>
    /\ served = {}
    /\ last = NoFile
    /\ q_runs = 0
    /\ g_runs = 0
    /\ RouteIdle
    /\ SolveIdle
    /\ QuboIdle
    /\ NodeIdle

NextSim ==
    \/ InitializeSumo
    \/ AddVehicles
    \/ SimulationStep
    \/ LoopExit
    \/ Close
    \/ GreedyStart
    \/ GreedyTrip
    \/ GreedyEnd
    \/ QuantumStart
    \/ QuantumFileMissing
    \/ QuantumAssign
    \/ QuantumEnd
    \/ NoAssignment

SpecSim == InitSim /\ [][NextSim]_vars

(***************************************************************************)
(* qubo_model.py                                                           *)
(***************************************************************************)

MaxModelVars == 4    \* binary variables riders * vehicles of one built model

DEFAULT_PENALTY == 5000

MAX_WAIT_TIME == 600

\* Entries of the distance matrix: the ends of np.random.randint(1, 10)
DistanceValues == {1, 9}

\* Entries of the wait-time matrix: one within MAX_WAIT_TIME, as every
\* synthetic entry is, and one beyond it, as loaded wait times can be
TimeValues == {0, 601}

\* The index pairs of Array.create('x', shape=(riders, vehicles))
Cells(R, V) == (0 .. (R - 1)) \X (0 .. (V - 1))

\* The binary assignments of the variables x[i][j]
Samples(R, V) == [Cells(R, V) -> {0, 1}]

Sq(n) == n * n

\* sum(f[e] for e in S)
RECURSIVE Sum(_, _)
Sum(f, S) ==
    IF S = {} THEN 0
    ELSE LET e == CHOOSE e \in S : TRUE
         IN  f[e] + Sum(f, S \ {e})

\* sum(distance_matrix[i][j] * x[i][j])
distance_term(x, R, V, D) ==
    Sum([c \in Cells(R, V) |-> D[c] * x[c]], Cells(R, V))

\* sum over riders of (sum_j x[i][j] - 1) ** 2
assignment_constraints(x, R, V) ==
    Sum([i \in 0 .. (R - 1) |->
            Sq(Sum([j \in 0 .. (V - 1) |-> x[<<i, j>>]], 0 .. (V - 1)) - 1)],
        0 .. (R - 1))

\* sum over vehicles of (sum_i x[i][j] - MAX_CAPACITY) ** 2
capacity_constraints(x, R, V) ==
    Sum([j \in 0 .. (V - 1) |->
            Sq(Sum([i \in 0 .. (R - 1) |-> x[<<i, j>>]], 0 .. (R - 1))
               - MAX_CAPACITY)],
        0 .. (V - 1))

\* sum of (time_matrix[i][j] - MAX_WAIT_TIME) ** 2 * x[i][j] over the entries
\* with time_matrix[i][j] > MAX_WAIT_TIME
time_penalty_term(x, R, V, T) ==
    Sum([c \in Cells(R, V) |->
            IF T[c] > MAX_WAIT_TIME THEN Sq(T[c] - MAX_WAIT_TIME) * x[c] ELSE 0],
        Cells(R, V))

\* model = distance_term + DEFAULT_PENALTY * (assignment_constraints +
\*         capacity_constraints + time_penalty_term), as a value per sample.
\* to_qubo splits it into coefficients and an offset, which moves every
\* sample's energy by the same amount.
Objective(x, R, V, D, T) ==
    distance_term(x, R, V, D)
    + DEFAULT_PENALTY * (assignment_constraints(x, R, V)
                         + capacity_constraints(x, R, V)
                         + time_penalty_term(x, R, V, T))

\* build_qubo_model
BuildQuboModel ==
    /\ bpc = "start"
    /\ model' = [x \in Samples(n_riders, n_vehicles) |->
                   Objective(x, n_riders, n_vehicles, distance_matrix, time_matrix)]
    /\ bpc' = "built"
    /\ UNCHANGED <<n_riders, n_vehicles, distance_matrix, time_matrix, best_sample>>
    /\ UNCHANGED <<routeVars, solveVars, simVars, nodeVars>>

\* solve_qubo main: best_sample = sampleset.first.sample, the sample of
\* lowest energy, when the sampler has found a minimum of the model
Minimise ==
    /\ bpc = "built"
    /\ \E x \in DOMAIN model :
          /\ \A y \in DOMAIN model : model[x] <= model[y]
          /\ best_sample' = x
    /\ bpc' = "solved"
    /\ UNCHANGED <<n_riders, n_vehicles, distance_matrix, time_matrix, model>>
    /\ UNCHANGED <<routeVars, solveVars, simVars, nodeVars>>

\* main: riders and vehicles from the command line, the matrices drawn or
\* loaded at the start of build_qubo_model
InitQubo ==
    /\ n_riders \in 1 .. MaxModelVars
    /\ n_vehicles \in 1 .. MaxModelVars
    /\ n_riders * n_vehicles <= MaxModelVars
    /\ distance_matrix \in [Cells(n_riders, n_vehicles) -> DistanceValues]
    /\ time_matrix \in [Cells(n_riders, n_vehicles) -> TimeValues]
    /\ model = <<>>
    /\ best_sample = <<>>
    /\ bpc = "start"
    /\ RouteIdle
    /\ SolveIdle
    /\ SimIdle
    /\ NodeIdle

NextQubo == BuildQuboModel \/ Minimise

SpecQubo == InitQubo /\ [][NextQubo]_vars

(***************************************************************************)
(* simulate_traffic.py: node names on the two grids                        *)
(***************************************************************************)

\* GRID_SIZE = 20 if args.grid == 'nyc' else 4
GRID_SIZE(grid) == IF grid = "nyc" THEN 20 ELSE 4

\* The coordinates a trip of the grid can carry: 0 .. GRID_SIZE - 1 each
GridPoints(size) == (0 .. (size - 1)) \X (0 .. (size - 1))

\* assign_ride on a trip of the grid: pickup_node and dropoff_node
NameNodes ==
    /\ npc = "start"
    /\ \E pickup \in GridPoints(grid_size), dropoff \in GridPoints(grid_size) :
          /\ coords' = <<pickup, dropoff>>
          /\ nodes' = <<NodeName(pickup[1], pickup[2]),
                        NodeName(dropoff[1], dropoff[2])>>
    /\ npc' = "named"
    /\ UNCHANGED grid_size
    /\ UNCHANGED <<routeVars, solveVars, simVars, quboVars>>

InitNode ==
    /\ \E grid \in {"synthetic", "nyc"} : grid_size = GRID_SIZE(grid)
    /\ coords = <<>>
    /\ nodes = <<>>
    /\ npc = "start"
    /\ RouteIdle
    /\ SolveIdle
    /\ SimIdle
    /\ QuboIdle

NextNode == NameNodes

SpecNode == InitNode /\ [][NextNode]_vars

(***************************************************************************)
(* Claims about the route builder (SpecRoute).                             *)
(***************************************************************************)

\* Positions of the stops of rider k (local index) of the given type
StopsOf(type, k) ==
    {i \in DOMAIN artifact.route :
        artifact.route[i].type = type /\ artifact.route[i].rider_id = k}

\* C1: in the route process_vehicle_route writes, every rider's pickup stop
\* has a strictly smaller index than that rider's dropoff stop.
C1_PickupBeforeDropoff ==
    rpc = "done" =>
        \A k \in 0 .. (Len(rider_indices) - 1) :
            \A i \in StopsOf("pickup", k), j \in StopsOf("dropoff", k) : i < j

C9_Input == rider_indices = <<0, 1>> /\ rpc = "done"

C9_Order ==
    /\ Len(artifact.route) = 4
    /\ [i \in 1 .. 4 |-> <<artifact.route[i].type, artifact.route[i].x, artifact.route[i].y>>]
         = << <<"pickup", 1, 0>>, <<"dropoff", 1, 1>>,
              <<"pickup", 0, 2>>, <<"dropoff", 0, 5>> >>

\* C9 as stated: riders A (row 0) and B (row 1) in that order give the stop
\* order B-pickup, B-dropoff, A-pickup, A-dropoff and total_distance 8.
C9_WorkedExampleTotal8 ==
    C9_Input => (C9_Order /\ artifact.total_distance = 8)

\* C9 amended: the same stop order, with legs 1, 1, 2, 3 and total_distance 7.
C9_WorkedExampleTotal7 ==
    C9_Input =>
        /\ C9_Order
        /\ [i \in 1 .. 4 |-> artifact.route[i].distance_from_previous] = <<1, 1, 2, 3>>
        /\ artifact.total_distance = 7

C9_Witness == C9_Input /\ artifact.total_distance = 7

\* Sum of distance_from_previous over the first n stops of the artifact
RECURSIVE LegSum(_)
LegSum(n) ==
    IF n = 0 THEN 0
    ELSE LegSum(n - 1) + artifact.route[n].distance_from_previous

\* The position before stop i of the artifact: the previous stop, or the start
Before(i) ==
    IF i = 1 THEN <<0, 0>> ELSE <<artifact.route[i - 1].x, artifact.route[i - 1].y>>

\* C12: total_distance is the sum of the stops' distance_from_previous, and
\* each of these is the Manhattan distance from the previous stop (from (0,0)
\* for the first stop).
C12_TotalIsSum ==
    rpc = "done" =>
        /\ artifact.total_distance = LegSum(Len(artifact.route))
        /\ \A i \in DOMAIN artifact.route :
              artifact.route[i].distance_from_previous
                = Abs(artifact.route[i].x - Before(i)[1])
                  + Abs(artifact.route[i].y - Before(i)[2])

\* A route of six stops whose later legs do not start at the origin
C12_Witness ==
    /\ rpc = "done"
    /\ Len(artifact.route) = 6
    /\ artifact.total_distance > 0
    /\ \E i \in 2 .. 6 : Before(i) # <<0, 0>>

Visited == {route[i] : i \in DOMAIN route}

\* C17: optimize_route visits every one of the 2n points exactly once and
\* then returns: the visited points and remaining_points always partition
\* the points, so a visited point is never put back and the loop ends after
\* 2n iterations.
C17_EachPointOnce ==
    /\ rpc \in {"optimize", "reconstruct", "done"} =>
          /\ \A i, j \in DOMAIN route : route[i] = route[j] => i = j
          /\ Visited \cap remaining_points = {}
          /\ Visited \cup remaining_points = 0 .. (2 * Len(rider_indices) - 1)
    /\ rpc \in {"reconstruct", "done"} =>
          /\ Len(route) = 2 * Len(rider_indices)
          /\ remaining_points = {}

\* Three riders, one of them dropped off before being picked up: the pickup
\* was chosen when its dropoff had already been visited.
C17_Witness ==
    /\ rpc = "done"
    /\ Len(rider_indices) = 3
    /\ Len(route) = 6
    /\ \E i, j \in DOMAIN route :
          i < j /\ route[i] = route[j] + Len(rider_indices)

\* C19: every stop's rider_id is the rider_id of an entry of the artifact's
\* riders list, and the stop is at that rider's pickup or dropoff.
C19_StopRiderIsAssigned ==
    rpc = "done" =>
        \A i \in DOMAIN artifact.route :
            \E k \in DOMAIN artifact.riders :
                /\ artifact.riders[k].rider_id = artifact.route[i].rider_id
                /\ <<artifact.route[i].x, artifact.route[i].y>>
                      = IF artifact.route[i].type = "pickup"
                        THEN artifact.riders[k].pickup
                        ELSE artifact.riders[k].dropoff

(***************************************************************************)
(* Claims about the solve stage (SpecSolve).                               *)
(***************************************************************************)

\* Number of vehicles whose list holds rider i, counted with repetition
Occurrences(i) ==
    LET RECURSIVE Count(_)
        Count(S) == IF S = {} THEN 0
                    ELSE LET j == CHOOSE x \in S : TRUE
                         IN  Cardinality({k \in 1 .. Len(assignments[j]) : assignments[j][k] = i})
                             + Count(S \ {j})
    IN  Count(DOMAIN assignments)

\* C2: validate_solution reports valid exactly when every rider 0..R-1 is in
\* exactly one vehicle's list.
C2_ValidIffExactlyOnce ==
    spc \in {"validated", "saved", "loaded"} =>
        (is_valid <=> \A i \in 0 .. (riders - 1) : Occurrences(i) = 1)

\* C3: an assignment reported valid gives every vehicle at most MAX_CAPACITY
\* riders.
C3_ValidWithinCapacity ==
    (spc \in {"validated", "saved", "loaded"} /\ is_valid) =>
        \A j \in DOMAIN assignments : Len(assignments[j]) <= MAX_CAPACITY

\* C10: an assignment that does not cover every rider exactly once is neither
\* persisted by the solve stage nor consumed downstream.
C10_InvalidNeverPersisted ==
    (\E i \in 0 .. (riders - 1) : spc # "solved" /\ Occurrences(i) # 1) =>
        (~results_file.exists /\ ~loaded.exists)


\* How often rider i occurs in a vehicle's list
CountIn(rider_list, i) ==
    Cardinality({k \in DOMAIN rider_list : rider_list[k] = i})

\* C13: interpret_solution returns a list for every vehicle 0..V-1; rider i
\* is in vehicle j's list exactly once when x[i][j] = 1 and not at all
\* otherwise, and the lists hold nothing but riders 0..R-1.
C13_InterpretIff ==
    spc # "solved" =>
        /\ DOMAIN assignments = 0 .. (vehicles - 1)
        /\ \A j \in 0 .. (vehicles - 1) :
              /\ \A k \in DOMAIN assignments[j] :
                    assignments[j][k] \in 0 .. (riders - 1)
              /\ \A i \in 0 .. (riders - 1) :
                    CountIn(assignments[j], i)
                      = IF sample[VarName(i, j)] = 1 THEN 1 ELSE 0

\* A sample with a two-digit rider index set and rider 0 unset, interpreted
C13_Witness ==
    /\ spc = "interpreted"
    /\ riders = 11
    /\ vehicles = 1
    /\ sample[VarName(10, 0)] = 1
    /\ sample[VarName(0, 0)] = 0
    /\ sample[VarName(1, 0)] = 1
    /\ Len(assignments[0]) >= 2

(***************************************************************************)
(* Claims about the simulation loop (SpecSim).                             *)
(***************************************************************************)

\* C4: in greedy mode a request whose assignment completed earlier is never
\* assigned again.
C4_AssignedAtMostOnce ==
    [][(/\ algorithm = "greedy"
        /\ mpc = "greedy"
        /\ cursor' = cursor + 1
        /\ last'.outcome = "assigned") => last'.trip \notin served]_vars

\* C5: every vehicle's remaining capacity stays within 0 .. VEHICLE_CAPACITY.
C5_CapacityInRange ==
    \A v \in DOMAIN capacity : 0 <= capacity[v] /\ capacity[v] <= VEHICLE_CAPACITY

\* C6: however the run ends after traci.start, traci.close has been called
\* exactly once.
C6_ReleasedExactlyOnce ==
    (starts = 1 /\ mpc \in {"closed", "exited"}) => closes = 1

C7_Counts ==
    /\ algorithm = "quantum" =>
          /\ g_runs = 0
          /\ q_runs <= 1
          /\ mpc = "quantum" => (step = 0 /\ q_runs = 0)
          /\ (mpc = "loop" /\ step >= 1) => q_runs = 1
    /\ algorithm = "greedy" =>
          /\ q_runs = 0
          /\ mpc = "loop" => g_runs = step
          /\ mpc = "greedy" => g_runs = step

C7_Order ==
    \* a strategy is entered only right after the world step of its tick
    /\ (mpc' # mpc /\ mpc' \in {"greedy", "quantum"}) => mpc = "stepped"
    \* greedy: the pass follows every world step
    /\ (algorithm = "greedy" /\ mpc = "stepped" /\ mpc' # mpc) => mpc' = "greedy"
    \* quantum: after the first tick nothing is assigned any more
    /\ (algorithm = "quantum" /\ step >= 1) =>
          UNCHANGED <<capacity, target, served, q_runs>>

\* C7: offline, the precomputed assignment is applied exactly once, in the
\* first tick after its world step; online, the greedy pass runs in every
\* tick after the world step; never both in one simulation.
C7_StrategySchedule == []C7_Counts /\ [][C7_Order]_vars

C7_Witness == algorithm = "quantum" /\ q_runs = 1 /\ step >= 2 /\ mpc = "loop"

\* Manhattan distance from the n-th vehicle of the id list to trip t's pickup
PickupDistance(n, t) ==
    Abs(position[VehicleIds[n]][1] - trips[t + 1].pickup_x)
    + Abs(position[VehicleIds[n]][2] - trips[t + 1].pickup_y)

HasCapacity == {n \in 1 .. Len(VehicleIds) : capacity[VehicleIds[n]] > 0}

\* C8: the greedy pass picks, among the vehicles with remaining capacity > 0,
\* the one nearest to the pickup, the first scanned winning ties, and touches
\* no other vehicle; with no such vehicle nothing is assigned or changed.
C8_GreedyChoice ==
    [][(mpc = "greedy" /\ cursor' = cursor + 1) =>
          IF HasCapacity = {}
          THEN /\ last'.outcome = "no_vehicle"
               /\ UNCHANGED <<capacity, target, served>>
          ELSE \E n \in HasCapacity :
                  /\ last'.veh = VehicleIds[n]
                  /\ last'.trip = cursor
                  /\ \A m \in HasCapacity :
                        \/ PickupDistance(n, cursor) < PickupDistance(m, cursor)
                        \/ /\ PickupDistance(n, cursor) = PickupDistance(m, cursor)
                           /\ n <= m
                  /\ \A m \in 1 .. Len(VehicleIds) : m # n =>
                        /\ capacity'[VehicleIds[m]] = capacity[VehicleIds[m]]
                        /\ target'[VehicleIds[m]] = target[VehicleIds[m]]]_vars

\* The full first vehicle is nearer to the pickup, and the second got the trip.
C8_Witness ==
    /\ algorithm = "greedy"
    /\ mpc = "greedy"
    /\ last.exists
    /\ last.outcome = "assigned"
    /\ last.veh = VehicleIds[2]
    /\ capacity[VehicleIds[1]] = 0
    /\ PickupDistance(1, last.trip) < PickupDistance(2, last.trip)

\* An assign_ride call happens in this step (either strategy)
AssignStep == mpc \in {"greedy", "quantum"} /\ cursor' = cursor + 1

Rejected == {"pickup_rejected", "dropoff_rejected"}

\* Number of assign attempts one pass makes
PassLength == IF mpc = "greedy" THEN Len(trips) ELSE Len(qfile.entries)

C14_StopsAtZero ==
    [][/\ (mpc' = "stepped" /\ mpc # "stepped") => (mpc = "loop" /\ min_expected > 0)
       /\ (mpc = "loop" /\ min_expected = 0) =>
             (mpc' = "finished" /\ UNCHANGED <<position, capacity, target, served, step>>)
       /\ mpc \in {"finished", "closed"} =>
             UNCHANGED <<position, capacity, target, served, last, step, cursor,
                         min_expected, q_runs, g_runs>>]_vars

\* The run ended after one tick although more ticks were possible.
C14_Witness ==
    /\ algorithm = "greedy"
    /\ mpc = "closed"
    /\ step = 1
    /\ g_runs = 1
    /\ min_expected = 0
    /\ step < MaxTicks

\* C15: a completed assignment takes one seat and leaves the vehicle with its
\* earlier target, the new pickup and the new dropoff all among its targets.
C15_TargetsAppended ==
    [][(AssignStep /\ last'.outcome = "assigned") =>
          LET v == last'.veh
              trip == trips[last'.trip + 1]
          IN  /\ capacity'[v] = capacity[v] - 1
              /\ {target[v], NodeName(trip.pickup_x, trip.pickup_y),
                  NodeName(trip.dropoff_x, trip.dropoff_y)} \subseteq {target'[v]}]_vars

\* C16: a rejected assignment leaves every capacity and every target as it was.
C16_RejectionRestores ==
    [][(AssignStep /\ last'.outcome \in Rejected) =>
          (capacity' = capacity /\ target' = target)]_vars

(***************************************************************************)
(* Claims about the model builder (SpecQubo).                              *)
(***************************************************************************)

\* The number of vehicles the best sample puts rider i in
VehiclesOf(i) ==
    Cardinality({j \in 0 .. (n_vehicles - 1) : best_sample[<<i, j>>] = 1})

\* C18: with the penalty weight above every distance entry and
\* R <= V * MAX_CAPACITY, a sample that minimises the built objective puts
\* every rider in exactly one vehicle.
C18_MinimiserAssignsOnce ==
    (/\ bpc = "solved"
     /\ n_riders <= n_vehicles * MAX_CAPACITY
     /\ \A c \in DOMAIN distance_matrix : DEFAULT_PENALTY > distance_matrix[c])
        => \A i \in 0 .. (n_riders - 1) : VehiclesOf(i) = 1

(***************************************************************************)
(* Claims about the node names (SpecNode).                                 *)
(***************************************************************************)

\* C20: on the 4x4 and on the 20x20 grid, two different coordinates never
\* get the same node name.
C20_NodeNameInjective ==
    (npc = "named" /\ coords[1] # coords[2]) => nodes[1] # nodes[2]

====
